---------------------------- MODULE Spec2Model ----------------------------
(***************************************************************************)
(* A model of the audio dataset pipeline: run_pipeline.py (orchestrator    *)
(* and version numbering), preprocess.py and transcribe.py (the batch      *)
(* loops around the external audio and speech libraries),                  *)
(* filter_quality.py (duration and quality filters) and create_dataset.py  *)
(* (the dataset records and the versioned artifacts).                      *)
(*                                                                         *)
(* Conventions.  A Python dict is a function from key strings to values;   *)
(* the empty dict is the function with the empty domain.  A Python list is *)
(* a sequence.  A file name is a sequence of tokens, the last of which is  *)
(* its extension (".wav", ".mp3"); a text is a sequence of tokens, each a  *)
(* word or a run of whitespace " ", consecutive words being separated by   *)
(* one blank.  Seconds are integers; a confidence is an integer number of  *)
(* tenths (3 is 0.3).                                                      *)
(***************************************************************************)
EXTENDS Integers, Sequences, FiniteSets, TLC

VARIABLES
    \* the file system
    raw_audio,            \* names of the files in raw_audio_dir
    processed_audio,      \* names of the files in processed_audio_dir
    output_exists,        \* whether output_dir exists
    output_dir,           \* entries of output_dir: [name, is_dir, written]
    \* one call of run_pipeline
    pc,                   \* position in run_pipeline
    runs,                 \* calls of run_pipeline so far
    version,              \* the version argument, then the resolved version
    input_file,           \* the input_file argument
    preprocess_results,
    transcription_results,
    filtered_samples,
    filter_report,
    df,                   \* the records of the DataFrame, in row order
    result,               \* what run_pipeline returned
    \* observation of one run
    fatal,                \* the ERROR line the run printed, or "none"
    saved,                \* calls of save_dataset in this run
    output_at_start,      \* output_dir when the run started
    stages,               \* the stages the run has executed, in order
    last_run,             \* the version and the outcome of the run before
    \* one call of a function on its own
    args,                 \* the arguments of the call
    ret                   \* what it returned, or NoReturn

fsvars == <<raw_audio, processed_audio, output_exists, output_dir>>
runvars == <<pc, runs, version, input_file, preprocess_results,
             transcription_results, filtered_samples, filter_report, df,
             result>>
obsvars == <<fatal, saved, output_at_start, stages, last_run>>
pipevars == <<fsvars, runvars, obsvars>>
callvars == <<args, ret>>
vars == <<pipevars, callvars>>

\* An optional value is a sequence: None is the empty one, Some(v) holds v.
None == <<>>
Some(v) == <<v>>

\* no function has been called on its own; the call has not returned
NoCall == [fn |-> "none"]
NoReturn == None

-----------------------------------------------------------------------------
(* Python built-ins *)

EmptyDict == <<>>

\* dict.get(key, default)
Get(d, key, default) == IF key \in DOMAIN d THEN d[key] ELSE default

\* str.lower() of one token
LowerToken(c) ==
    CASE c = "S" -> "s"
      [] c = "A" -> "a"
      [] c = "B" -> "b"
      [] OTHER -> c

\* str.lower() of a name or a text
Lower(s) == [i \in DOMAIN s |-> LowerToken(s[i])]

Range(s) == {s[i] : i \in DOMAIN s}

\* max(S)
Max(S) == CHOOSE m \in S : \A n \in S : n <= m

-----------------------------------------------------------------------------
(* Texts *)

Whitespace == " "
AlphaWords == {"a", "A", "b"}

RECURSIVE LStrip(_)
LStrip(text) ==
    IF text /= <<>> /\ Head(text) = Whitespace THEN LStrip(Tail(text))
    ELSE text

RECURSIVE RStrip(_)
RStrip(text) ==
    IF text /= <<>> /\ text[Len(text)] = Whitespace
    THEN RStrip(SubSeq(text, 1, Len(text) - 1))
    ELSE text

\* str.strip()
Strip(text) == RStrip(LStrip(text))

IsWord(t) == t /= Whitespace

\* str.split()
Split(text) == SelectSeq(text, IsWord)

\* re.search(r'[a-zA-Z]', text)
HasAlpha(text) == \E i \in DOMAIN text : text[i] \in AlphaWords

-----------------------------------------------------------------------------
(* filter_quality.py *)

DurationOK == <<"Duration OK">>
QualityOK == <<"Quality OK">>

\* filter_by_duration with both bounds exclusive
filter_by_duration_exclusive(sample, min_duration, max_duration) ==
    LET duration == Get(sample, "final_duration", 0) IN
    IF duration <= min_duration
    THEN <<FALSE, <<"Too short", duration, min_duration>>>>
    ELSE IF duration >= max_duration
    THEN <<FALSE, <<"Too long", duration, max_duration>>>>
    ELSE <<TRUE, DurationOK>>

filter_by_duration(sample, min_duration, max_duration) ==
    LET duration == Get(sample, "final_duration", 0) IN
    IF duration < min_duration
    THEN <<FALSE, <<"Too short", duration, min_duration>>>>
    ELSE IF duration > max_duration
    THEN <<FALSE, <<"Too long", duration, max_duration>>>>
    ELSE <<TRUE, DurationOK>>

\* the repetition check without "and len(words) > 5"
ExcessiveRepetition_any_length(words) ==
    /\ Len(words) > 0
    /\ 10 * Cardinality(Range(words)) < 3 * Len(words)

\* unique_ratio < 0.3 and len(words) > 5, the ratio being
\* len(set(words)) / len(words)
ExcessiveRepetition(words) ==
    /\ Len(words) > 0
    /\ 10 * Cardinality(Range(words)) < 3 * Len(words)
    /\ Len(words) > 5

\* filter_by_transcription_quality without the check for alphabetic characters
filter_by_transcription_quality_no_alpha(sample, min_confidence, min_words) ==
    LET text == Strip(Get(sample, "text", <<>>))
        confidence == Get(sample, "confidence", 0)
        word_count == Get(sample, "word_count", 0)
        words == Split(Lower(text))
    IN
    IF ~Get(sample, "success", FALSE)
    THEN <<FALSE, <<"Transcription failed", Get(sample, "error", "Unknown error")>>>>
    ELSE IF text = <<>>
    THEN <<FALSE, <<"Empty transcription">>>>
    ELSE IF confidence < min_confidence
    THEN <<FALSE, <<"Low confidence", confidence, min_confidence>>>>
    ELSE IF word_count < min_words
    THEN <<FALSE, <<"Too few words", word_count, min_words>>>>
    ELSE IF ExcessiveRepetition(words)
    THEN <<FALSE, <<"Excessive repetition detected", Cardinality(Range(words)), Len(words)>>>>
    ELSE <<TRUE, QualityOK>>

filter_by_transcription_quality(sample, min_confidence, min_words) ==
    LET text == Strip(Get(sample, "text", <<>>))
        confidence == Get(sample, "confidence", 0)
        word_count == Get(sample, "word_count", 0)
        words == Split(Lower(text))
    IN
    IF ~Get(sample, "success", FALSE)
    THEN <<FALSE, <<"Transcription failed", Get(sample, "error", "Unknown error")>>>>
    ELSE IF text = <<>>
    THEN <<FALSE, <<"Empty transcription">>>>
    ELSE IF confidence < min_confidence
    THEN <<FALSE, <<"Low confidence", confidence, min_confidence>>>>
    ELSE IF word_count < min_words
    THEN <<FALSE, <<"Too few words", word_count, min_words>>>>
    ELSE IF ~HasAlpha(text)
    THEN <<FALSE, <<"No alphabetic characters found">>>>
    ELSE IF ExcessiveRepetition(words)
    THEN <<FALSE, <<"Excessive repetition detected", Cardinality(Range(words)), Len(words)>>>>
    ELSE <<TRUE, QualityOK>>

\* preprocess_dict.get(key, {}): the dict comprehension keeps, for each
\* lower-cased output_file, the last successful record
preprocess_dict_get(preprocess_res, key) ==
    LET hits == {i \in DOMAIN preprocess_res :
                    /\ Get(preprocess_res[i], "success", FALSE)
                    /\ Lower(preprocess_res[i].output_file) = key}
    IN IF hits = {} THEN EmptyDict ELSE preprocess_res[Max(hits)]

\* transcribe_dict.get(key, {})
transcribe_dict_get(transcription_res, key) ==
    LET hits == {i \in DOMAIN transcription_res : Lower(transcription_res[i].filename) = key}
    IN IF hits = {} THEN EmptyDict ELSE transcription_res[Max(hits)]

\* the report before the loop
NewReport(samples) ==
    [total |-> Len(samples), passed |-> 0, failed_duration |-> 0,
     failed_quality |-> 0, failed_both |-> 0, reasons |-> <<>>]

\* the candidate looked up as it is spelled
sample_key_exact(sample) == sample

\* sample_lower = sample.lower()
sample_key(sample) == Lower(sample)

\* a candidate without a transcription record is not skipped
SkipSample_never(transcr) == FALSE

\* "if not transcr: continue"
SkipSample(transcr) == transcr = EmptyDict

\* CountFailure forgetting the sample that fails both filters in failed_both
CountFailure_no_both(rep, sample, dur, qual) ==
    LET reasons == (IF ~dur[1] THEN <<dur[2]>> ELSE <<>>)
                   \o (IF ~qual[1] THEN <<qual[2]>> ELSE <<>>)
    IN [rep EXCEPT
          !.failed_duration = IF ~dur[1] THEN @ + 1 ELSE @,
          !.failed_quality = IF ~qual[1] THEN @ + 1 ELSE @,
          !.reasons = Append(@, [filename |-> sample, reasons |-> reasons])]

\* the counters and the itemized list of a sample that did not pass
CountFailure(rep, sample, dur, qual) ==
    LET reasons == (IF ~dur[1] THEN <<dur[2]>> ELSE <<>>)
                   \o (IF ~qual[1] THEN <<qual[2]>> ELSE <<>>)
    IN [rep EXCEPT
          !.failed_duration = IF ~dur[1] THEN @ + 1 ELSE @,
          !.failed_quality = IF ~qual[1] THEN @ + 1 ELSE @,
          !.failed_both = IF ~dur[1] /\ ~qual[1] THEN @ + 1 ELSE @,
          !.reasons = Append(@, [filename |-> sample, reasons |-> reasons])]

\* one iteration of the loop that puts a passed sample in front of the list
FilterOne_prepend(sample, preprocess_res, transcription_res, th, acc) ==
    LET sample_lower == sample_key(sample)
        preproc == preprocess_dict_get(preprocess_res, sample_lower)
        transcr == transcribe_dict_get(transcription_res, sample_lower)
        dur == filter_by_duration(preproc, th.min_duration, th.max_duration)
        qual == filter_by_transcription_quality(transcr, th.min_confidence, th.min_words)
    IN
    IF SkipSample(transcr) THEN acc
    ELSE IF dur[1] /\ qual[1]
    THEN <<<<[filename |-> sample, preprocessing |-> preproc,
              transcription |-> transcr, status |-> "passed"]>> \o acc[1],
           [acc[2] EXCEPT !.passed = @ + 1]>>
    ELSE <<acc[1], CountFailure(acc[2], sample, dur, qual)>>

\* one iteration of the loop over samples; th holds the four thresholds and
\* acc is <<filtered_samples, filter_report>>
FilterOne(sample, preprocess_res, transcription_res, th, acc) ==
    LET sample_lower == sample_key(sample)
        preproc == preprocess_dict_get(preprocess_res, sample_lower)
        transcr == transcribe_dict_get(transcription_res, sample_lower)
        dur == filter_by_duration(preproc, th.min_duration, th.max_duration)
        qual == filter_by_transcription_quality(transcr, th.min_confidence, th.min_words)
    IN
    IF SkipSample(transcr) THEN acc
    ELSE IF dur[1] /\ qual[1]
    THEN <<Append(acc[1], [filename |-> sample, preprocessing |-> preproc,
                           transcription |-> transcr, status |-> "passed"]),
           [acc[2] EXCEPT !.passed = @ + 1]>>
    ELSE <<acc[1], CountFailure(acc[2], sample, dur, qual)>>

RECURSIVE FilterLoop(_, _, _, _, _, _)
FilterLoop(samples, i, preprocess_res, transcription_res, th, acc) ==
    IF i > Len(samples) THEN acc
    ELSE FilterLoop(samples, i + 1, preprocess_res, transcription_res, th,
                    FilterOne(samples[i], preprocess_res, transcription_res, th, acc))

\* returns <<filtered_samples, filter_report>>
apply_filters(samples, preprocess_res, transcription_res, th) ==
    FilterLoop(samples, 1, preprocess_res, transcription_res, th, <<<<>>, NewReport(samples)>>)

-----------------------------------------------------------------------------
(* run_pipeline.py: get_next_version *)

\* The name of an entry of output_dir is a sequence of tokens: the text
\* "dataset_v", a digit, a minus sign, or a letter.
Prefix == "dataset_v"
Digits == {"0", "1", "2", "3", "4"}

DigitValue(c) ==
    CASE c = "0" -> 0
      [] c = "1" -> 1
      [] c = "2" -> 2
      [] c = "3" -> 3
      [] c = "4" -> 4

IsDigits(s) == s /= <<>> /\ \A i \in DOMAIN s : s[i] \in Digits

RECURSIVE DecimalValue(_)
DecimalValue(s) ==
    IF s = <<>> THEN 0
    ELSE 10 * DecimalValue(SubSeq(s, 1, Len(s) - 1)) + DigitValue(s[Len(s)])

\* int(s) does not raise ValueError: an optional sign, then digits
IsInt(s) == IsDigits(s) \/ (s /= <<>> /\ Head(s) = "-" /\ IsDigits(Tail(s)))

\* int(s)
ParseInt(s) == IF Head(s) = "-" THEN 0 - DecimalValue(Tail(s)) ELSE DecimalValue(s)

\* item.name.startswith('dataset_v')
StartsWithPrefix(name) == name /= <<>> /\ Head(name) = Prefix

NotPrefix(t) == t /= Prefix

\* item.name.replace('dataset_v', ''): every occurrence is removed
RemovePrefix(name) == SelectSeq(name, NotPrefix)

\* get_next_version returning the highest existing version
get_next_version_no_increment(exists, entries) ==
    LET existing_versions ==
            {ParseInt(RemovePrefix(item.name)) :
                item \in {e \in entries : /\ e.is_dir
                                          /\ StartsWithPrefix(e.name)
                                          /\ IsInt(RemovePrefix(e.name))}}
    IN IF ~exists THEN 1
       ELSE IF existing_versions = {} THEN 1
       ELSE Max(existing_versions)

\* exists says whether output_dir exists, entries are its entries
get_next_version(exists, entries) ==
    LET existing_versions ==
            {ParseInt(RemovePrefix(item.name)) :
                item \in {e \in entries : /\ e.is_dir
                                          /\ StartsWithPrefix(e.name)
                                          /\ IsInt(RemovePrefix(e.name))}}
    IN IF ~exists THEN 1
       ELSE IF existing_versions = {} THEN 1
       ELSE Max(existing_versions) + 1

-----------------------------------------------------------------------------
(* Program constants and the bounds of the model *)

\* defaults of run_pipeline and of the filters
DefaultMinDuration == 2
DefaultMaxDuration == 300
DefaultMinConfidence == 3
DefaultMinWords == 3

DefaultThresholds ==
    [min_duration |-> DefaultMinDuration, max_duration |-> DefaultMaxDuration,
     min_confidence |-> DefaultMinConfidence, min_words |-> DefaultMinWords]

MaxSeconds == 4      \* durations and duration bounds of a call of filter_by_duration
MaxText == 3         \* tokens of a text given to filter_by_transcription_quality
MaxSamples == 2      \* candidates given to apply_filters
MaxRecs == 2         \* records in each list given to apply_filters
MaxEntries == 3      \* entries of the output_dir given to get_next_version
MaxRuns == 2         \* calls of run_pipeline
MaxDataset == 3      \* filtered samples given to create_dataset_metadata

\* the sequences over S of length at most n
SeqsUpTo(S, n) == UNION {[1..k -> S] : k \in 0..n}

-----------------------------------------------------------------------------
(* The pipeline at rest: the state in which a function is called on its own *)

PipeIdle ==
    /\ raw_audio = {}
    /\ processed_audio = {}
    /\ output_exists = FALSE
    /\ output_dir = {}
    /\ pc = "idle"
    /\ runs = 0
    /\ version = None
    /\ input_file = None
    /\ preprocess_results = <<>>
    /\ transcription_results = <<>>
    /\ filtered_samples = <<>>
    /\ filter_report = None
    /\ df = None
    /\ result = None
    /\ fatal = "none"
    /\ saved = 0
    /\ output_at_start = {}
    /\ stages = <<>>
    /\ last_run = None

-----------------------------------------------------------------------------
(* get_next_version called on its own *)

\* dataset_v1, dataset_v2, dataset_v4, dataset_v0, dataset_v-2, dataset_v12,
\* dataset_v, dataset_vx, x1, dataset_v1dataset_v2
EntryNames ==
    {<<Prefix, "1">>, <<Prefix, "2">>, <<Prefix, "4">>, <<Prefix, "0">>,
     <<Prefix, "-", "2">>, <<Prefix, "1", "2">>, <<Prefix>>, <<Prefix, "x">>,
     <<"x", "1">>, <<Prefix, "1", Prefix, "2">>}

\* a directory holds at most one entry of a name
DistinctNames(entries) == \A e1, e2 \in entries : e1.name = e2.name => e1 = e2

\* the contents a directory can have, of at most n entries
Directories(names, n) ==
    {d \in SUBSET [name : names, is_dir : BOOLEAN] : Cardinality(d) <= n /\ DistinctNames(d)}

InitVersion ==
    /\ PipeIdle
    /\ \E exists \in BOOLEAN :
          args \in [fn : {"get_next_version"}, exists : {exists},
                    entries : IF exists THEN Directories(EntryNames, MaxEntries) ELSE {{}}]
    /\ ret = NoReturn

CallVersion ==
    /\ args.fn = "get_next_version"
    /\ ret = NoReturn
    /\ ret' = Some(get_next_version(args.exists, args.entries))
    /\ UNCHANGED <<pipevars, args>>

SpecVersion == InitVersion /\ [][CallVersion]_vars

-----------------------------------------------------------------------------
(* filter_by_duration called on its own *)

DurationSamples == {EmptyDict} \cup {[final_duration |-> d] : d \in 0..MaxSeconds}

InitDuration ==
    /\ PipeIdle
    /\ args \in [fn : {"filter_by_duration"}, sample : DurationSamples,
                 min_duration : -1..MaxSeconds, max_duration : -1..MaxSeconds]
    /\ ret = NoReturn

CallDuration ==
    /\ args.fn = "filter_by_duration"
    /\ ret = NoReturn
    /\ ret' = Some(filter_by_duration(args.sample, args.min_duration, args.max_duration))
    /\ UNCHANGED <<pipevars, args>>

SpecDuration == InitDuration /\ [][CallDuration]_vars

-----------------------------------------------------------------------------
(* filter_by_transcription_quality called on its own *)

Tokens == {"a", "A", "7", Whitespace}
Texts == SeqsUpTo(Tokens, MaxText)
Confidences == {2, 3, 5}
WordCounts == {0, 2, 3}

\* n times the word w
Repeated(w, n) == [i \in 1..n |-> w]

\* texts of five words and more: one word five, six and ten times; "a" and
\* "A" in turn; six different words; six numbers; two different words among
\* six, seven and ten; three different words among ten and eleven; six equal
\* words separated and surrounded by whitespace
LongTexts ==
    {Repeated("a", 5), Repeated("a", 6), Repeated("a", 10),
     <<"a", "A", "a", "A", "a", "A">>,
     <<"a", "b", "7", "8", "9", "10">>,
     Repeated("7", 6),
     Repeated("a", 5) \o <<"b">>,
     Repeated("a", 6) \o <<"b">>,
     Repeated("a", 9) \o <<"b">>,
     Repeated("a", 8) \o <<"b", "7">>,
     Repeated("a", 9) \o <<"b", "7">>,
     <<Whitespace, "a", Whitespace, "a", Whitespace, "a", Whitespace, "a", Whitespace, "a", Whitespace,
       "a", Whitespace>>}

\* the records transcribe_audio builds: a success, or a failure with its
\* error (language, segments and audio_path are not read by the filters)
QualitySamples ==
    [success : BOOLEAN, text : Texts \cup LongTexts, confidence : Confidences, word_count : WordCounts]
    \cup {[success |-> FALSE, error |-> "e", text |-> <<>>, confidence |-> 0]}
    \cup {EmptyDict}

InitQuality ==
    /\ PipeIdle
    /\ args \in [fn : {"filter_by_transcription_quality"}, sample : QualitySamples,
                 min_confidence : {3, 5}, min_words : {1, 3}]
    /\ ret = NoReturn

CallQuality ==
    /\ args.fn = "filter_by_transcription_quality"
    /\ ret = NoReturn
    /\ ret' = Some(filter_by_transcription_quality(args.sample, args.min_confidence, args.min_words))
    /\ UNCHANGED <<pipevars, args>>

SpecQuality == InitQuality /\ [][CallQuality]_vars

-----------------------------------------------------------------------------
(* apply_filters called on its own *)

SampleWav == <<"S", ".wav">>
sampleWav == <<"s", ".wav">>
otherWav == <<"b", ".wav">>
FilterNames == {SampleWav, sampleWav, otherWav}

GoodText == <<"a", "b", "a">>

\* records of preprocess_audio_batch: a file of 3 s, a file of 301 s, and a
\* file that could not be read
FilterPreprocessRecords ==
    {[success |-> TRUE, final_duration |-> 3, input_file |-> <<"S", ".mp3">>, output_file |-> SampleWav],
     [success |-> TRUE, final_duration |-> 301, input_file |-> <<"s", ".mp3">>, output_file |-> sampleWav],
     [success |-> FALSE, error |-> "e", input_file |-> <<"b", ".mp3">>, output_file |-> otherWav]}

\* records of transcribe_batch: two good transcriptions and one of low
\* confidence
FilterTranscriptionRecords ==
    {[success |-> TRUE, text |-> GoodText, confidence |-> 9, word_count |-> 3, filename |-> sampleWav],
     [success |-> TRUE, text |-> GoodText, confidence |-> 1, word_count |-> 3, filename |-> SampleWav],
     [success |-> TRUE, text |-> GoodText, confidence |-> 9, word_count |-> 3, filename |-> otherWav]}

InitFilters ==
    /\ PipeIdle
    /\ args \in [fn : {"apply_filters"},
                 samples : SeqsUpTo(FilterNames, MaxSamples),
                 preprocess_results : SeqsUpTo(FilterPreprocessRecords, MaxRecs),
                 transcription_results : SeqsUpTo(FilterTranscriptionRecords, MaxRecs),
                 min_duration : {0, DefaultMinDuration}]
    /\ ret = NoReturn

CallFilters ==
    /\ args.fn = "apply_filters"
    /\ ret = NoReturn
    /\ ret' = Some(apply_filters(args.samples, args.preprocess_results, args.transcription_results,
                                 [DefaultThresholds EXCEPT !.min_duration = args.min_duration]))
    /\ UNCHANGED <<pipevars, args>>

SpecFilters == InitFilters /\ [][CallFilters]_vars

-----------------------------------------------------------------------------
(* pathlib and the directories *)

Extensions == {".mp3", ".wav", ".aac", ".ogg", ".m4a", ".flac"}

\* Path(name).stem: the name without its last suffix
PathStem(name) ==
    IF Len(name) > 1 /\ name[Len(name)] \in Extensions
    THEN SubSeq(name, 1, Len(name) - 1)
    ELSE name

\* the sequences that list every element of the set S once
Orders(S) == {q \in [1..Cardinality(S) -> S] : Range(q) = S}

\* path.glob('*' + ext): the files of the directory with that extension, in
\* the order the file system lists them
Glob(dir, ext) == Orders({f \in dir : f[Len(f)] = ext})

-----------------------------------------------------------------------------
(* preprocess.py *)

\* what preprocess_audio_file can come to for one file: an exception, or a
\* final duration in seconds
PreprocessOutcomes == {[ok |-> FALSE], [ok |-> TRUE, final_duration |-> 1], [ok |-> TRUE, final_duration |-> 3]}

\* the result of preprocess_audio_file with input_file and output_file
\* added (original_duration, sample_rate and output_path are not modelled)
PreprocessRecord(audio_file, outcome) ==
    LET output_file == PathStem(audio_file) \o <<".wav">> IN
    IF ~outcome.ok
    THEN [success |-> FALSE, error |-> "e", input_file |-> audio_file, output_file |-> output_file]
    ELSE [success |-> TRUE, final_duration |-> outcome.final_duration, input_file |-> audio_file,
          output_file |-> output_file]

\* the audio files preprocess_audio_batch finds: the specific file if it is
\* there, else nothing; without a specific file, the globs of the two
\* extensions the directory holds, in the order of audio_extensions
AudioFiles(dir, specific_file) ==
    IF specific_file /= None
    THEN IF specific_file[1] \in dir THEN {<<specific_file[1]>>} ELSE {<<>>}
    ELSE {m \o w : m \in Glob(dir, ".mp3"), w \in Glob(dir, ".wav")}

\* the names of the successfully written files
WrittenFiles(results) == {results[i].output_file : i \in {j \in DOMAIN results : results[j].success}}

-----------------------------------------------------------------------------
(* transcribe.py *)

\* what transcribe_audio can come to for one file: a good transcription or
\* an exception
TranscribeOutcomes == {"good", "error"}

\* the result of transcribe_audio with filename added (language, segments and
\* audio_path are not modelled)
TranscriptionRecord(audio_file, outcome) ==
    IF outcome = "good"
    THEN [success |-> TRUE, text |-> GoodText, confidence |-> 9,
          word_count |-> Len(Split(GoodText)), filename |-> audio_file]
    ELSE [success |-> FALSE, error |-> "e", text |-> <<>>, confidence |-> 0,
          filename |-> audio_file]

-----------------------------------------------------------------------------
(* create_dataset.py *)

\* the code point order of the tokens of a name
TokenRank(c) ==
    CASE c = "A" -> 1
      [] c = "B" -> 2
      [] c = "S" -> 3
      [] c = "a" -> 4
      [] c = "b" -> 5
      [] c = "s" -> 6
      [] OTHER -> 0

\* s <= t for strings
RECURSIVE LexLeq(_, _)
LexLeq(s, t) ==
    IF s = <<>> THEN TRUE
    ELSE IF t = <<>> THEN FALSE
    ELSE IF Head(s) = Head(t) THEN LexLeq(Tail(s), Tail(t))
    ELSE TokenRank(Head(s)) < TokenRank(Head(t))

\* the record of one filtered sample
DatasetRecord(sample) ==
    [sample_id |-> PathStem(sample.filename),
     filename |-> sample.filename,
     transcription |-> Get(sample.transcription, "text", <<>>),
     duration_seconds |-> Get(sample.preprocessing, "final_duration", 0),
     confidence |-> Get(sample.transcription, "confidence", 0),
     word_count |-> Get(sample.transcription, "word_count", 0)]

IsSortedBy_sample_id(rows) ==
    \A i, j \in DOMAIN rows : i < j => LexLeq(rows[i].sample_id, rows[j].sample_id)

\* the rows left in the order of the filtered samples
SortedBy_sample_id_unsorted(rows) == {rows}

\* df.sort_values('sample_id').reset_index(drop=True): the rows in an order
\* that is ascending in sample_id (rows of equal sample_id in any order)
SortedBy_sample_id(rows) ==
    {[i \in DOMAIN rows |-> rows[q[i]]] : q \in {r \in Orders(DOMAIN rows) :
        IsSortedBy_sample_id([i \in DOMAIN rows |-> rows[r[i]]])}}

\* the DataFrames create_dataset_metadata can return (the statistics other
\* than version and total_samples are not modelled)
create_dataset_metadata(samples) ==
    SortedBy_sample_id([i \in DOMAIN samples |-> DatasetRecord(samples[i])])

Statistics(rows, v) == [version |-> v, total_samples |-> Len(rows)]

\* str(n) of an integer
RECURSIVE FormatNat(_)
FormatNat(n) ==
    LET d == CHOOSE c \in Digits : DigitValue(c) = n % 10 IN
    IF n < 10 THEN <<d>> ELSE FormatNat(n \div 10) \o <<d>>

FormatInt(n) == IF n < 0 THEN <<"-">> \o FormatNat(0 - n) ELSE FormatNat(n)

\* f"dataset_v{version}"
VersionDirName(v) == <<Prefix>> \o FormatInt(v)

\* save_dataset: output_dir after version_dir.mkdir(parents=True,
\* exist_ok=True) and the writing of the four files, which replace those of
\* a directory that was there
save_dataset(entries, rows, stats, v, run) ==
    {e \in entries : e.name /= VersionDirName(v)}
    \cup {[name |-> VersionDirName(v), is_dir |-> TRUE,
           written |-> [dataset |-> rows, statistics |-> stats, by_run |-> run]]}

-----------------------------------------------------------------------------
(* create_dataset_metadata called on its own *)

\* passed samples as apply_filters builds them: A.wav, a.wav (of 3 s and of
\* 4 s), ab.wav, b.wav, and s.wav without a preprocessing record
DatasetNames == {<<"A", ".wav">>, <<"a", ".wav">>, <<"a", "b", ".wav">>, <<"b", ".wav">>}

PassedSample(name, seconds) ==
    [filename |-> name,
     preprocessing |-> [success |-> TRUE, final_duration |-> seconds, input_file |-> name,
                        output_file |-> name],
     transcription |-> TranscriptionRecord(name, "good"),
     status |-> "passed"]

DatasetSamples ==
    {PassedSample(name, 3) : name \in DatasetNames}
    \cup {PassedSample(<<"a", ".wav">>, 4)}
    \cup {[filename |-> sampleWav, preprocessing |-> EmptyDict,
            transcription |-> TranscriptionRecord(sampleWav, "good"), status |-> "passed"]}

\* sort_values('sample_id') on the DataFrame of an empty list, which has no
\* column of that name, raises KeyError
SortRaises(samples) == samples = <<>>

InitDataset ==
    /\ PipeIdle
    /\ args \in [fn : {"create_dataset_metadata"},
                 filtered_samples : SeqsUpTo(DatasetSamples, MaxDataset),
                 version : {1, 2}]
    /\ ret = NoReturn

CallDataset ==
    /\ args.fn = "create_dataset_metadata"
    /\ ret = NoReturn
    /\ IF SortRaises(args.filtered_samples)
       THEN ret' = Some([raised |-> "KeyError"])
       ELSE \E rows \in create_dataset_metadata(args.filtered_samples) :
               ret' = Some([raised |-> "none", df |-> rows,
                            stats |-> Statistics(rows, args.version)])
    /\ UNCHANGED <<pipevars, args>>

SpecDataset == InitDataset /\ [][CallDataset]_vars

-----------------------------------------------------------------------------
(* run_pipeline.py: run_pipeline and main *)

RawFiles == {<<"a", ".mp3">>, <<"a", ".wav">>, <<"b", ".mp3">>}

\* a version directory an earlier use of the pipeline left
OldVersion1 ==
    [name |-> VersionDirName(1), is_dir |-> TRUE,
     written |-> [dataset |-> <<>>, statistics |-> None, by_run |-> 0]]

Init ==
    /\ raw_audio \in SUBSET RawFiles
    /\ processed_audio = {}
    /\ \/ output_exists = FALSE /\ output_dir = {}
       \/ output_exists = TRUE /\ output_dir \in {{}, {OldVersion1}}
    /\ pc = "idle"
    /\ runs = 0
    /\ version = None
    /\ input_file = None
    /\ preprocess_results = <<>>
    /\ transcription_results = <<>>
    /\ filtered_samples = <<>>
    /\ filter_report = None
    /\ df = None
    /\ result = None
    /\ fatal = "none"
    /\ saved = 0
    /\ output_at_start = {}
    /\ stages = <<>>
    /\ last_run = None
    /\ args = NoCall
    /\ ret = NoReturn

\* main calls run_pipeline with the arguments of the command line
CallRunPipeline ==
    /\ pc = "idle"
    /\ runs < MaxRuns
    /\ runs' = runs + 1
    /\ version' \in {None, Some(1)}
    /\ input_file' \in {None, Some(<<"a", ".mp3">>)}
    /\ pc' = "init"
    /\ output_at_start' = output_dir
    /\ UNCHANGED <<fsvars, preprocess_results, transcription_results,
                   filtered_samples, filter_report, df, result, fatal, saved,
                   stages, last_run, callvars>>

\* "Determine version"
DetermineVersion ==
    /\ pc = "init"
    /\ version' = IF version = None
                  THEN Some(get_next_version(output_exists, output_dir))
                  ELSE version
    /\ pc' = "stage1"
    /\ stages' = Append(stages, "init")
    /\ UNCHANGED <<fsvars, runs, input_file, preprocess_results,
                   transcription_results, filtered_samples, filter_report, df,
                   result, fatal, saved, output_at_start, last_run, callvars>>

\* Stage 1: preprocess_audio_batch, then the two checks of its results
Preprocess ==
    /\ pc = "stage1"
    /\ \E audio_files \in AudioFiles(raw_audio, input_file) :
       \E outcomes \in [DOMAIN audio_files -> PreprocessOutcomes] :
          LET results == [i \in DOMAIN audio_files |->
                             PreprocessRecord(audio_files[i], outcomes[i])]
          IN /\ preprocess_results' = results
             /\ processed_audio' = processed_audio \cup WrittenFiles(results)
             /\ IF results = <<>>
                THEN pc' = "returned" /\ fatal' = "No audio files found to process!"
                ELSE IF WrittenFiles(results) = {}
                THEN pc' = "returned" /\ fatal' = "All preprocessing failed!"
                ELSE pc' = "stage2" /\ fatal' = fatal
    /\ stages' = Append(stages, "preprocess")
    /\ UNCHANGED <<raw_audio, output_exists, output_dir, runs, version,
                   input_file, transcription_results, filtered_samples,
                   filter_report, df, result, saved, output_at_start, last_run, callvars>>

\* Stage 2 run again when a file could not be transcribed
Transcribe_retry ==
    /\ pc = "stage2"
    /\ \E audio_files \in Glob(processed_audio, ".wav") :
       \E outcomes \in [DOMAIN audio_files -> TranscribeOutcomes] :
          LET results == [i \in DOMAIN audio_files |->
                             TranscriptionRecord(audio_files[i], outcomes[i])]
          IN /\ transcription_results' = results
             /\ IF results = <<>>
                THEN pc' = "returned" /\ fatal' = "No files transcribed!"
                ELSE IF \E i \in DOMAIN results : ~results[i].success
                THEN pc' = "stage2" /\ fatal' = fatal
                ELSE pc' = "stage3" /\ fatal' = fatal
    /\ stages' = Append(stages, "transcribe")
    /\ UNCHANGED <<fsvars, runs, version, input_file, preprocess_results,
                   filtered_samples, filter_report, df, result, saved,
                   output_at_start, last_run, callvars>>

\* Stage 2: transcribe_batch over the .wav files of processed_audio_dir
Transcribe ==
    /\ pc = "stage2"
    /\ \E audio_files \in Glob(processed_audio, ".wav") :
       \E outcomes \in [DOMAIN audio_files -> TranscribeOutcomes] :
          LET results == [i \in DOMAIN audio_files |->
                             TranscriptionRecord(audio_files[i], outcomes[i])]
          IN /\ transcription_results' = results
             /\ IF results = <<>>
                THEN pc' = "returned" /\ fatal' = "No files transcribed!"
                ELSE pc' = "stage3" /\ fatal' = fatal
    /\ stages' = Append(stages, "transcribe")
    /\ UNCHANGED <<fsvars, runs, version, input_file, preprocess_results,
                   filtered_samples, filter_report, df, result, saved,
                   output_at_start, last_run, callvars>>

\* processed_files = [r['output_file'] for r in successful_preprocess]
processed_files(results) ==
    LET Success(r) == r.success
        successful_preprocess == SelectSeq(results, Success)
    IN [i \in DOMAIN successful_preprocess |-> successful_preprocess[i].output_file]

\* Stage 3 without "if not filtered_samples: return None"
Filter_no_return ==
    /\ pc = "stage3"
    /\ LET out == apply_filters(processed_files(preprocess_results), preprocess_results,
                                transcription_results, DefaultThresholds)
       IN /\ filtered_samples' = out[1]
          /\ filter_report' = Some(out[2])
          /\ pc' = "stage4"
          /\ fatal' = fatal
    /\ stages' = Append(stages, "filter")
    /\ UNCHANGED <<fsvars, runs, version, input_file, preprocess_results,
                   transcription_results, df, result, saved, output_at_start,
                   last_run, callvars>>

\* Stage 3: apply_filters with the thresholds of the call
Filter ==
    /\ pc = "stage3"
    /\ LET out == apply_filters(processed_files(preprocess_results), preprocess_results,
                                transcription_results, DefaultThresholds)
       IN /\ filtered_samples' = out[1]
          /\ filter_report' = Some(out[2])
          /\ IF out[1] = <<>>
             THEN pc' = "returned" /\ fatal' = "No samples passed quality filters!"
             ELSE pc' = "stage4" /\ fatal' = fatal
    /\ stages' = Append(stages, "filter")
    /\ UNCHANGED <<fsvars, runs, version, input_file, preprocess_results,
                   transcription_results, df, result, saved, output_at_start,
                   last_run, callvars>>

\* Stage 4: create_dataset_metadata, save_dataset and the returned dict
CreateDataset ==
    /\ pc = "stage4"
    /\ \E rows \in create_dataset_metadata(filtered_samples) :
          LET stats == Statistics(rows, version[1]) IN
          /\ df' = Some(rows)
          /\ output_exists' = TRUE
          /\ output_dir' = save_dataset(output_dir, rows, stats, version[1], runs)
          /\ saved' = saved + 1
          /\ result' = Some([version |-> version[1],
                             preprocess_results |-> preprocess_results,
                             transcription_results |-> transcription_results,
                             filter_report |-> filter_report[1],
                             filtered_samples |-> filtered_samples,
                             dataset |-> rows,
                             statistics |-> stats,
                             saved_paths |-> VersionDirName(version[1])])
    /\ pc' = "returned"
    /\ stages' = Append(stages, "build")
    /\ UNCHANGED <<raw_audio, processed_audio, runs, version, input_file,
                   preprocess_results, transcription_results, filtered_samples,
                   filter_report, fatal, output_at_start, last_run, callvars>>

\* main exits with the status of the result; nothing of the run is kept in
\* memory
Exit ==
    /\ pc = "returned"
    /\ pc' = "idle"
    /\ version' = None
    /\ input_file' = None
    /\ preprocess_results' = <<>>
    /\ transcription_results' = <<>>
    /\ filtered_samples' = <<>>
    /\ filter_report' = None
    /\ df' = None
    /\ result' = None
    /\ fatal' = "none"
    /\ saved' = 0
    /\ output_at_start' = {}
    /\ stages' = <<>>
    /\ last_run' = Some([version |-> version[1], fatal |-> result = None])
    /\ UNCHANGED <<fsvars, runs, callvars>>

Next ==
    \/ CallRunPipeline
    \/ DetermineVersion
    \/ Preprocess
    \/ Transcribe
    \/ Filter
    \/ CreateDataset
    \/ Exit

Spec == Init /\ [][Next]_vars

-----------------------------------------------------------------------------
(* Runs in which the caller never supplies a version *)

\* a directory that was in output_dir before the first run
OldDir(name) ==
    [name |-> name, is_dir |-> TRUE,
     written |-> [dataset |-> <<>>, statistics |-> None, by_run |-> 0]]

\* the output roots the runs start from: none, an empty one, dataset_v1,
\* dataset_v0 and dataset_v1, dataset_v-2, dataset_v1dataset_v0, and
\* dataset_v1 beside a directory of another name
AutoRoots ==
    {{}, {OldVersion1}, {OldDir(<<Prefix, "0">>), OldVersion1},
     {OldDir(<<Prefix, "-", "2">>)}, {OldDir(<<Prefix, "1", Prefix, "0">>)},
     {OldVersion1, OldDir(<<"x", "1">>)}}

InitAuto ==
    /\ raw_audio \in SUBSET RawFiles
    /\ processed_audio = {}
    /\ \/ output_exists = FALSE /\ output_dir = {}
       \/ output_exists = TRUE /\ output_dir \in AutoRoots
    /\ pc = "idle"
    /\ runs = 0
    /\ version = None
    /\ input_file = None
    /\ preprocess_results = <<>>
    /\ transcription_results = <<>>
    /\ filtered_samples = <<>>
    /\ filter_report = None
    /\ df = None
    /\ result = None
    /\ fatal = "none"
    /\ saved = 0
    /\ output_at_start = {}
    /\ stages = <<>>
    /\ last_run = None
    /\ args = NoCall
    /\ ret = NoReturn

\* main calls run_pipeline without --version
CallAuto == CallRunPipeline /\ version' = None

NextAuto ==
    \/ CallAuto
    \/ DetermineVersion
    \/ Preprocess
    \/ Transcribe
    \/ Filter
    \/ CreateDataset
    \/ Exit

SpecAuto == InitAuto /\ [][NextAuto]_vars

-----------------------------------------------------------------------------
(* Claims about run_pipeline (Spec) *)

Stage1Done == pc \in {"stage2", "stage3", "stage4", "returned"}
Stage2Done == pc \in {"stage3", "stage4"} \/ (pc = "returned" /\ WrittenFiles(preprocess_results) /= {})
Stage3Done == filter_report /= None

\* the four stage-fatal conditions
NoRecords == Stage1Done /\ preprocess_results = <<>>
AllFailed == Stage1Done /\ preprocess_results /= <<>> /\ WrittenFiles(preprocess_results) = {}
NoTranscriptions == Stage2Done /\ transcription_results = <<>>
NonePassed == Stage3Done /\ filtered_samples = <<>>
StageFatal == NoRecords \/ AllFailed \/ NoTranscriptions \/ NonePassed

\* C1: whenever a stage-fatal condition occurs (preprocessing returns no
\* records, every preprocessing record is a failure, transcription returns
\* an empty result set, or zero samples pass apply_filters), the run ends
\* without ever calling save_dataset: no version directory or dataset
\* artifact is created or modified under the output root, and the run
\* returns no result.
C1_FatalLeavesNoDataset ==
    StageFatal =>
        /\ pc = "returned"
        /\ fatal /= "none"
        /\ saved = 0
        /\ df = None
        /\ output_dir = output_at_start
        /\ result = None

\* a run over a directory that holds a version ended because no sample
\* passed the filters
C1_Witness ==
    /\ NonePassed
    /\ pc = "returned"
    /\ output_dir /= {}
    /\ Len(transcription_results) = 2

\* C3: in every dataset a pipeline run produces, sample_id is unique: no two
\* records of the same dataset version share a sample_id, also when two raw
\* files with the same stem but different extensions are both preprocessed
\* successfully.
C3_UniqueSampleId ==
    (pc = "returned" /\ result /= None) =>
        \A i, j \in DOMAIN result[1].dataset :
            i /= j => result[1].dataset[i].sample_id /= result[1].dataset[j].sample_id

\* C10: Stage 2 invokes the Transcriber over exactly the files that Stage 1
\* of the same run preprocessed successfully: a file whose preprocessing
\* failed in this run, or a processed file left in the processed-audio
\* directory by an earlier run, never appears in the run's transcription
\* results.
C10_TranscribesOnlyThisRun ==
    Stage2Done =>
        {transcription_results[i].filename : i \in DOMAIN transcription_results}
            = WrittenFiles(preprocess_results)

\* the stages of run_pipeline in the order of its code
StageOrder == <<"init", "preprocess", "transcribe", "filter", "build">>

IsPrefix(s, t) == Len(s) <= Len(t) /\ \A i \in DOMAIN s : s[i] = t[i]

\* C15: every run of run_pipeline executes the stages in the fixed order
\* Init (version resolution), Preprocess, Transcribe, Filter, Build+Persist,
\* each at most once and never retried; stage N+1 starts only after stage N
\* has completed without a stage-fatal condition, so save_dataset is reached
\* only after apply_filters returned at least one passed sample, and a run
\* that reaches Build+Persist returns a result holding the version,
\* per-stage results, filter report, records, statistics and output paths.
C15_StagesInOrder ==
    /\ IsPrefix(stages, StageOrder)
    /\ pc = "idle" => stages = <<>>
    /\ Len(stages) >= 2 => version /= None /\ version[1] \in Int
    /\ Len(stages) >= 3 => \E i \in DOMAIN preprocess_results : preprocess_results[i].success
    /\ Len(stages) >= 4 => transcription_results /= <<>>
    /\ saved <= 1
    /\ saved = 1 <=> Len(stages) = 5
    /\ Len(stages) = 5 =>
          /\ filter_report /= None
          /\ filter_report[1].passed = Len(filtered_samples)
          /\ filtered_samples /= <<>>
          /\ pc = "returned"
          /\ result /= None
          /\ DOMAIN result[1] = {"version", "preprocess_results", "transcription_results",
                                 "filter_report", "filtered_samples", "dataset", "statistics",
                                 "saved_paths"}
          /\ result[1].version = version[1]
          /\ result[1].preprocess_results = preprocess_results
          /\ result[1].transcription_results = transcription_results
          /\ result[1].filter_report = filter_report[1]
          /\ result[1].filtered_samples = filtered_samples
          /\ Len(result[1].dataset) = Len(filtered_samples)
          /\ result[1].statistics.total_samples = Len(filtered_samples)
          /\ \E e \in output_dir :
                /\ e.name = result[1].saved_paths
                /\ e.written.dataset = result[1].dataset
                /\ e.written.by_run = runs
    /\ (pc = "returned" /\ Len(stages) < 5) => result = None /\ fatal /= "none"

\* the second run has gone through the five stages, one of its two
\* transcriptions having failed, and has returned a dataset of one record
C15_Witness ==
    /\ runs = 2
    /\ stages = StageOrder
    /\ pc = "returned"
    /\ result /= None
    /\ Len(transcription_results) = 2
    /\ \E i \in DOMAIN transcription_results : ~transcription_results[i].success
    /\ Len(result[1].dataset) = 1

-----------------------------------------------------------------------------
(* Claims about runs without a supplied version (SpecAuto) *)

\* the version directories of a set of entries: directories named
\* dataset_v<N>, N an integer
VersionDirs(entries) ==
    {e \in entries : e.is_dir /\ StartsWithPrefix(e.name) /\ IsInt(Tail(e.name))}

RunSucceeded == pc = "returned" /\ result /= None
RunFatal == pc = "returned" /\ result = None

\* C16: over any sequence of pipeline runs on the same output root in which
\* the caller never supplies a version, each successful run writes into a
\* version directory that did not exist before the run, with a version
\* number strictly greater than that of every version directory already
\* present, so no earlier version's artifacts are overwritten; and a run
\* that ends stage-fatally leaves the set of version directories unchanged,
\* so the next run computes the same version number the failed run had
\* resolved.
C16_FreshVersionDirectory ==
    /\ RunSucceeded =>
          /\ \A e \in output_at_start : e.name /= VersionDirName(version[1])
          /\ \A e \in VersionDirs(output_at_start) : ParseInt(Tail(e.name)) < version[1]
          /\ output_at_start \subseteq output_dir
          /\ \A e \in output_dir \ output_at_start :
                e.name = VersionDirName(version[1]) /\ e.written.by_run = runs
          /\ Cardinality(output_dir) = Cardinality(output_at_start) + 1
    /\ RunFatal => output_dir = output_at_start
    /\ (stages /= <<>> /\ last_run /= None /\ last_run[1].fatal)
          => version[1] = last_run[1].version

\* after a run that ended stage-fatally with version 2 resolved, the second
\* run has resolved version 2 again and has written dataset_v2 beside
\* dataset_v1
C16_Witness ==
    /\ runs = 2
    /\ last_run /= None
    /\ last_run[1] = [version |-> 2, fatal |-> TRUE]
    /\ RunSucceeded
    /\ version = Some(2)
    /\ {e.name : e \in output_dir} = {VersionDirName(1), VersionDirName(2)}

-----------------------------------------------------------------------------
(* Claims about get_next_version (SpecVersion) *)

VersionCalled == args.fn = "get_next_version" /\ ret /= NoReturn

\* the text of a name after the prefix it starts with
Suffix(name) == Tail(name)

\* the version numbers of the versioned-dataset subdirectories: directories
\* named dataset_v<N>, N an integer
VersionedSubdirs ==
    {e \in args.entries : e.is_dir /\ StartsWithPrefix(e.name) /\ IsInt(Suffix(e.name))}

\* C2: get_next_version returns (maximum version number among the existing
\* versioned-dataset subdirectories of the output root) + 1, and 1 when the
\* output root does not exist or holds no such subdirectory; entries that
\* are not directories, do not match the naming pattern, or whose suffix does
\* not parse as an integer do not influence the result.
C2_NextVersion ==
    VersionCalled =>
        ret[1] = IF ~args.exists \/ VersionedSubdirs = {} THEN 1
                 ELSE Max({ParseInt(Suffix(e.name)) : e \in VersionedSubdirs}) + 1

\* C13: whenever the caller supplies no version, the version resolved by
\* get_next_version is a positive integer (>= 1) for every possible content
\* of the output root, including subdirectories whose name after the
\* versioned-dataset prefix parses as zero or as a negative integer.
C13_VersionPositive == VersionCalled => ret[1] >= 1

-----------------------------------------------------------------------------
(* Claims about filter_by_duration (SpecDuration) *)

DurationCalled == args.fn = "filter_by_duration" /\ ret /= NoReturn
DurationArg == Get(args.sample, "final_duration", 0)

\* C7, as stated: filter_by_duration passes exactly when min_duration <=
\* final_duration <= max_duration; any duration strictly below min_duration
\* fails as too short and any duration strictly above max_duration fails as
\* too long.
C7_AsStated ==
    DurationCalled =>
        /\ ret[1][1] <=> (args.min_duration <= DurationArg /\ DurationArg <= args.max_duration)
        /\ DurationArg < args.min_duration => ret[1][2][1] = "Too short"
        /\ DurationArg > args.max_duration => ret[1][2][1] = "Too long"

\* C7, amended: filter_by_duration passes exactly when min_duration <=
\* final_duration <= max_duration; any duration strictly below min_duration
\* fails as too short, and any duration strictly above max_duration that is
\* not below min_duration fails as too long.
C7_DurationInclusive ==
    DurationCalled =>
        /\ ret[1][1] <=> (args.min_duration <= DurationArg /\ DurationArg <= args.max_duration)
        /\ DurationArg < args.min_duration => ret[1] = <<FALSE, <<"Too short", DurationArg, args.min_duration>>>>
        /\ (DurationArg > args.max_duration /\ DurationArg >= args.min_duration)
              => ret[1] = <<FALSE, <<"Too long", DurationArg, args.max_duration>>>>

\* a duration equal to the upper bound, above the lower bound, has passed
C7_Witness ==
    /\ DurationCalled
    /\ "final_duration" \in DOMAIN args.sample
    /\ DurationArg = args.max_duration
    /\ DurationArg > args.min_duration
    /\ ret[1] = <<TRUE, DurationOK>>

-----------------------------------------------------------------------------
(* Claims about filter_by_transcription_quality (SpecQuality) *)

QualityCalled == args.fn = "filter_by_transcription_quality" /\ ret /= NoReturn

\* C6: if filter_by_transcription_quality returns pass then the record
\* reports success, its stripped text is non-empty, its confidence is >=
\* min_confidence, its word_count is >= min_words, and its text contains at
\* least one alphabetic character.
C6_QualityPassImplies ==
    (QualityCalled /\ ret[1][1]) =>
        /\ "success" \in DOMAIN args.sample /\ args.sample.success
        /\ \E i \in DOMAIN args.sample.text : args.sample.text[i] /= Whitespace
        /\ args.sample.confidence >= args.min_confidence
        /\ args.sample.word_count >= args.min_words
        /\ \E i \in DOMAIN args.sample.text : args.sample.text[i] \in {"a", "A", "b"}

\* a record exactly at both thresholds, its text padded with whitespace, has
\* passed
C6_Witness ==
    /\ QualityCalled
    /\ ret[1] = <<TRUE, QualityOK>>
    /\ args.sample.confidence = args.min_confidence
    /\ args.sample.word_count = args.min_words
    /\ Whitespace \in Range(args.sample.text)
    /\ "7" \in Range(args.sample.text)

\* the words of the sample's text, lower-cased
QualityWords == Lower(SelectSeq(Get(args.sample, "text", <<>>), IsWord))

\* the headline of the reason the call returned
QualityReason == ret[1][2][1]

\* C14: filter_by_transcription_quality evaluates its checks in the fixed
\* order (a) transcription success, (b) non-empty stripped text, (c)
\* confidence >= min_confidence, (d) word_count >= min_words, (e) at least
\* one alphabetic character, (f) repetition, and returns the single reason
\* of the first check that fails; check (f) fails exactly when the
\* lower-cased whitespace-tokenized text has more than 5 tokens and
\* (distinct tokens / total tokens) < 0.3, so 6 identical words fail with
\* excessive repetition and 6 distinct words pass when the other thresholds
\* are met.
C14_FirstFailingCheck ==
    QualityCalled =>
        LET a == "success" \in DOMAIN args.sample /\ args.sample.success
            b == QualityWords /= <<>>
            c == Get(args.sample, "confidence", 0) >= args.min_confidence
            d == Get(args.sample, "word_count", 0) >= args.min_words
            e == \E i \in DOMAIN QualityWords : QualityWords[i] \in {"a", "b"}
            f == ~(/\ Len(QualityWords) > 5
                   /\ 10 * Cardinality(Range(QualityWords)) < 3 * Len(QualityWords))
        IN /\ ret[1][1] <=> (a /\ b /\ c /\ d /\ e /\ f)
           /\ ret[1][1] => ret[1][2] = QualityOK
           /\ ~a => QualityReason = "Transcription failed"
           /\ (a /\ ~b) => QualityReason = "Empty transcription"
           /\ (a /\ b /\ ~c) => QualityReason = "Low confidence"
           /\ (a /\ b /\ c /\ ~d) => QualityReason = "Too few words"
           /\ (a /\ b /\ c /\ d /\ ~e) => QualityReason = "No alphabetic characters found"
           /\ (a /\ b /\ c /\ d /\ e /\ ~f) => QualityReason = "Excessive repetition detected"
           /\ (a /\ c /\ d /\ args.sample.text = Repeated("a", 6))
                 => QualityReason = "Excessive repetition detected"
           /\ (a /\ c /\ d /\ args.sample.text = <<"a", "b", "7", "8", "9", "10">>) => ret[1][1]

\* six times the same word, "a" and "A" in turn, at both thresholds, has
\* failed with excessive repetition
C14_Witness ==
    /\ QualityCalled
    /\ "text" \in DOMAIN args.sample
    /\ args.sample.text = <<"a", "A", "a", "A", "a", "A">>
    /\ args.sample.confidence = args.min_confidence
    /\ args.sample.word_count = args.min_words
    /\ ret[1] = <<FALSE, <<"Excessive repetition detected", 1, 6>>>>

-----------------------------------------------------------------------------
(* Claims about apply_filters (SpecFilters) *)

FiltersCalled == args.fn = "apply_filters" /\ ret /= NoReturn

FiltersThresholds == [DefaultThresholds EXCEPT !.min_duration = args.min_duration]

\* the positions of the candidate list
Positions == [i \in 1..Len(args.samples) |-> i]

\* candidate i has a transcription record: some record's filename equals
\* the candidate's name, both lower-cased
HasTranscription(i) ==
    \E k \in DOMAIN args.transcription_results :
        Lower(args.transcription_results[k].filename) = Lower(args.samples[i])

\* the verdicts of the two filters on the records looked up for candidate i
DurationVerdict(i) ==
    filter_by_duration(preprocess_dict_get(args.preprocess_results, Lower(args.samples[i])),
                       FiltersThresholds.min_duration, FiltersThresholds.max_duration)

QualityVerdict(i) ==
    filter_by_transcription_quality(transcribe_dict_get(args.transcription_results, Lower(args.samples[i])),
                                    FiltersThresholds.min_confidence, FiltersThresholds.min_words)

\* for each position of the candidate list: whether the candidate is
\* considered, and the two verdicts
Verdicts ==
    [i \in DOMAIN args.samples |->
        [considered |-> HasTranscription(i), dur |-> DurationVerdict(i), qual |-> QualityVerdict(i)]]

\* the number of considered candidates with the given pass values
Count(v, duration_pass, quality_pass) ==
    Cardinality({i \in DOMAIN v : /\ v[i].considered
                                  /\ v[i].dur[1] = duration_pass
                                  /\ v[i].qual[1] = quality_pass})

NumConsidered(v) == Cardinality({i \in DOMAIN v : v[i].considered})

\* C4, as stated: failed_duration is the number of considered candidates
\* that failed the duration filter only, failed_quality the number that
\* failed the quality filter only, failed_both the number that failed both,
\* so that passed + failed_duration + failed_quality + failed_both is the
\* number of candidates that have a transcription record.
C4_AsStated ==
    FiltersCalled =>
        LET v == Verdicts
            rep == ret[1][2]
        IN /\ rep.failed_duration = Count(v, FALSE, TRUE)
           /\ rep.failed_quality = Count(v, TRUE, FALSE)
           /\ rep.failed_both = Count(v, FALSE, FALSE)
           /\ rep.passed + rep.failed_duration + rep.failed_quality + rep.failed_both
                 = NumConsidered(v)

\* C4, amended: failed_duration is the number of considered candidates that
\* failed the duration filter (those that failed both included),
\* failed_quality the number that failed the quality filter (those that
\* failed both included), failed_both the number that failed both, so that
\* passed + failed_duration + failed_quality - failed_both is the number of
\* candidates that have a transcription record.
C4_ReportCounts ==
    FiltersCalled =>
        LET v == Verdicts
            rep == ret[1][2]
        IN /\ rep.passed = Count(v, TRUE, TRUE)
           /\ rep.failed_duration = Count(v, FALSE, TRUE) + Count(v, FALSE, FALSE)
           /\ rep.failed_quality = Count(v, TRUE, FALSE) + Count(v, FALSE, FALSE)
           /\ rep.failed_both = Count(v, FALSE, FALSE)
           /\ rep.passed + rep.failed_duration + rep.failed_quality - rep.failed_both
                 = NumConsidered(v)

\* one candidate has passed and another has failed both filters
C4_Witness ==
    /\ FiltersCalled
    /\ ret[1][2].passed = 1
    /\ ret[1][2].failed_both = 1
    /\ ret[1][2].failed_duration = 1
    /\ ret[1][2].failed_quality = 1

\* the reasons of a candidate: the duration reason if duration failed, then
\* the quality reason if quality failed
ReasonsOf(verdict) ==
    (IF verdict.dur[1] THEN <<>> ELSE <<verdict.dur[2]>>)
    \o (IF verdict.qual[1] THEN <<>> ELSE <<verdict.qual[2]>>)

\* C5: a candidate with no transcription record appears in neither the
\* passed list nor the failure list and changes no counter; a candidate whose
\* two filters both pass appears once in the passed list; every other
\* candidate appears once in the failure list with the duration reason (if
\* duration failed) followed by the quality reason (if quality failed).
C5_ThreeOutcomes ==
    FiltersCalled =>
        LET v == Verdicts
            rep == ret[1][2]
            Passes(i) == v[i].considered /\ v[i].dur[1] /\ v[i].qual[1]
            Fails(i) == v[i].considered /\ ~(v[i].dur[1] /\ v[i].qual[1])
            PassedPositions == SelectSeq(Positions, Passes)
            FailedPositions == SelectSeq(Positions, Fails)
        IN /\ [j \in DOMAIN ret[1][1] |-> ret[1][1][j].filename]
                 = [j \in DOMAIN PassedPositions |-> args.samples[PassedPositions[j]]]
           /\ rep.reasons
                 = [j \in DOMAIN FailedPositions |->
                       [filename |-> args.samples[FailedPositions[j]],
                        reasons |-> ReasonsOf(v[FailedPositions[j]])]]
           /\ rep.passed = Len(PassedPositions)
           /\ rep.failed_duration + rep.failed_quality - rep.failed_both = Len(FailedPositions)
           /\ rep.total = Len(args.samples)

\* of two candidates, one had no transcription record and was skipped, and
\* the other failed both filters and carries both reasons, duration first
C5_Witness ==
    /\ FiltersCalled
    /\ Len(args.samples) = 2
    /\ NumConsidered(Verdicts) = 1
    /\ ret[1][1] = <<>>
    /\ Len(ret[1][2].reasons) = 1
    /\ Len(ret[1][2].reasons[1].reasons) = 2
    /\ ret[1][2].reasons[1].reasons[1][1] = "Too long"
    /\ ret[1][2].reasons[1].reasons[2][1] = "Low confidence"

\* C8: for a candidate filename, the preprocessing record and the
\* transcription record used are those whose filename keys equal the
\* candidate's name when all three are lower-cased: every candidate some
\* transcription record matches in this way is judged, and the records a
\* passed sample carries are records of the two lists that match its name.
C8_CaseInsensitiveJoin ==
    FiltersCalled =>
        /\ Len(ret[1][1]) + Len(ret[1][2].reasons)
              = Cardinality({i \in DOMAIN args.samples : HasTranscription(i)})
        /\ \A j \in DOMAIN ret[1][1] :
              /\ ret[1][1][j].transcription \in Range(args.transcription_results)
              /\ Lower(ret[1][1][j].transcription.filename) = Lower(ret[1][1][j].filename)
              /\ ret[1][1][j].preprocessing /= EmptyDict =>
                    /\ ret[1][1][j].preprocessing \in Range(args.preprocess_results)
                    /\ Lower(ret[1][1][j].preprocessing.output_file) = Lower(ret[1][1][j].filename)

\* the preprocessing record keyed "S.wav" has been joined with the
\* transcription record keyed "s.wav"
C8_Witness ==
    /\ FiltersCalled
    /\ \E j \in DOMAIN ret[1][1] :
          /\ ret[1][1][j].preprocessing /= EmptyDict
          /\ ret[1][1][j].preprocessing.output_file = SampleWav
          /\ ret[1][1][j].transcription.filename = sampleWav

\* C9: each sample in the passed list has a matching entry in both lookup
\* tables, a successful preprocessing record and a transcription record
\* keyed by the sample's lower-cased filename; no sample passes while
\* carrying an empty preprocessing record.
C9_PassedHaveBothRecords ==
    FiltersCalled =>
        \A j \in DOMAIN ret[1][1] :
            /\ ret[1][1][j].transcription /= EmptyDict
            /\ ret[1][1][j].preprocessing /= EmptyDict
            /\ \E k \in DOMAIN args.preprocess_results :
                  /\ args.preprocess_results[k].success
                  /\ Lower(args.preprocess_results[k].output_file) = Lower(ret[1][1][j].filename)

\* the keys of each lookup table are unique: no two successful
\* preprocessing records share a lower-cased output_file, no two
\* transcription records a lower-cased filename
UniqueKeys ==
    /\ \A i, j \in DOMAIN args.preprocess_results :
          (/\ i /= j
           /\ args.preprocess_results[i].success
           /\ args.preprocess_results[j].success)
             => Lower(args.preprocess_results[i].output_file) /= Lower(args.preprocess_results[j].output_file)
    /\ \A i, j \in DOMAIN args.transcription_results :
          i /= j => Lower(args.transcription_results[i].filename) /= Lower(args.transcription_results[j].filename)

\* the reorderings of a list
Reorderings(s) == {[i \in DOMAIN s |-> s[q[i]]] : q \in Orders(DOMAIN s)}

\* C12: the passed-sample list returned by apply_filters preserves the
\* iteration order of the candidate filename list: if two passed samples
\* come from candidate positions i < j, the sample from position i precedes
\* the one from position j; and when the keys are unique, the result does
\* not depend on the order of the preprocess or transcription record
\* collections.
C12_CandidateOrder ==
    FiltersCalled =>
        LET v == Verdicts
            passed == ret[1][1]
            from == {f \in [DOMAIN passed -> DOMAIN args.samples] :
                        /\ \A j, k \in DOMAIN passed : j < k => f[j] < f[k]
                        /\ \A j \in DOMAIN passed :
                              /\ v[f[j]].considered /\ v[f[j]].dur[1] /\ v[f[j]].qual[1]
                              /\ passed[j].filename = args.samples[f[j]]}
        IN /\ Cardinality(from) = 1
           /\ UniqueKeys =>
                 \A p \in Reorderings(args.preprocess_results) :
                 \A t \in Reorderings(args.transcription_results) :
                    apply_filters(args.samples, p, t, FiltersThresholds) = ret[1]

\* b.wav and s.wav have passed in the order of the candidate list, their
\* transcription records being listed in the opposite order
C12_Witness ==
    /\ FiltersCalled
    /\ UniqueKeys
    /\ args.samples = <<otherWav, sampleWav>>
    /\ [i \in DOMAIN args.transcription_results |-> args.transcription_results[i].filename]
          = <<sampleWav, otherWav>>
    /\ [j \in DOMAIN ret[1][1] |-> ret[1][1][j].filename] = <<otherWav, sampleWav>>

-----------------------------------------------------------------------------
(* Claims about create_dataset_metadata (SpecDataset) *)

DatasetReturned == args.fn = "create_dataset_metadata" /\ ret /= NoReturn /\ ret[1].raised = "none"

\* the number of positions of the sequence s that hold r
Occurrences(s, r) == Cardinality({i \in DOMAIN s : s[i] = r})

\* C11: the records returned by create_dataset_metadata are a permutation of
\* the records derived one-per-filtered-sample from its input, ordered by
\* sample_id ascending (lexicographic), whatever the order of the filtered
\* samples given to it; total_samples in the statistics equals the number of
\* filtered samples.
C11_SortedPermutation ==
    DatasetReturned =>
        LET rows == ret[1].df
            derived == [i \in DOMAIN args.filtered_samples |-> DatasetRecord(args.filtered_samples[i])]
        IN /\ Len(rows) = Len(derived)
           /\ \A r \in Range(rows) \cup Range(derived) : Occurrences(rows, r) = Occurrences(derived, r)
           /\ \A i \in 1..(Len(rows) - 1) : LexLeq(rows[i].sample_id, rows[i + 1].sample_id)
           /\ ret[1].stats.total_samples = Len(args.filtered_samples)

\* b.wav, ab.wav and A.wav, given in that order, have come back as A, ab, b
C11_Witness ==
    /\ DatasetReturned
    /\ [i \in DOMAIN args.filtered_samples |-> args.filtered_samples[i].filename]
          = <<<<"b", ".wav">>, <<"a", "b", ".wav">>, <<"A", ".wav">>>>
    /\ [i \in DOMAIN ret[1].df |-> ret[1].df[i].sample_id] = <<<<"A">>, <<"a", "b">>, <<"b">>>>

=============================================================================
